---- MODULE Spec2Model ----
(***************************************************************************)
(* Record reconciliation pipelines of the repository:                      *)
(*   fnri/fnri_dataSync.py           (program "fnri_dataSync")             *)
(*   fnri/fnri_dataSync_gdbAgo.py    (program "fnri_dataSync_gdbAgo")      *)
(*   ipca/ipca_dataset_workflow.py   (program "ipca_dataset_workflow")     *)
(*                                                                         *)
(* A feature class (GDB) is a sequence of rows, an AGOL layer a sequence   *)
(* of features, in cursor order.  A row is a record uid + attributes +     *)
(* SHAPE; a feature carries "geometry" instead of SHAPE.  Every attribute  *)
(* value is a string; NULL stands for None / NaN / NaT.  Dates are whole   *)
(* seconds, so dt.floor('S') and the time-zone shift of the readers leave  *)
(* them as they are.  Identities are unique within each store at the start *)
(* of a run (the data model's "unique within a store").                    *)
(***************************************************************************)
EXTENDS Integers, Sequences, FiniteSets, TLC

VARIABLES
    program,        \* which script runs
    run,            \* number of the current run (one process per run)
    pc,             \* position in __main__ / inside a multi-step handler
    gis,            \* AGOConnector.gis: "none" | "connected"
    raised,         \* an exception reached __main__'s except clause
    working_fc,     \* FNRI working GDB feature class
    staging_fc,     \* FNRI staging GDB feature class
    agol_working,   \* FNRI working AGOL layer  (agol_item_id_working)
    agol_staging,   \* FNRI staging AGOL layer  (agol_item_id_staging)
    bcgw_staging_fc,\* BCGW copy of the staging feature class (gdbAgo only)
    master_fc,      \* IPCA master feature class
    agol_main,      \* IPCA main AGOL layer   (agol_item_id_main)
    agol_cust,      \* IPCA custom AGOL layer (agol_item_id_cust)
    IPCA_custom,    \* IPCA custom feature class
    local_df,       \* self.local_df
    agol_df,        \* self.agol_df
    change_log,     \* self.change_log
    to_move,        \* move_published_to_staging: to_move
    dup_ids,        \* move_published_to_staging: dup_ids
    stopped,        \* history: identities of the last move that an exception cut short
    cursor,         \* overwrite_feature_layer: rows (features) still to upload
    failed_ids,     \* overwrite_feature_layer: failed_ids
    exported,       \* the change-log file written by export_change_log
    outcomes,       \* history: what happened to each source row during publish
    calls,          \* history: the edit_features and time.sleep calls of the publish loop
    faults,         \* number of remote calls that did not fully succeed, all runs together
    prev,           \* history: change log and published layers at the end of the previous run
    at_start        \* history: the stores as the current run found them

fnriStores == <<working_fc, staging_fc, agol_working, agol_staging, bcgw_staging_fc>>
ipcaStores == <<master_fc, agol_main, agol_cust, IPCA_custom>>
snapshots  == <<local_df, agol_df>>
moveLocals == <<to_move, dup_ids, stopped>>
pubLocals  == <<cursor, failed_ids, outcomes, calls>>
vars == <<program, run, pc, gis, raised, fnriStores, ipcaStores, snapshots,
          change_log, moveLocals, pubLocals, exported, faults, prev, at_start>>

-----------------------------------------------------------------------------
(* Bounds *)

NumIds  == 2        \* identities 1..NumIds
MaxRuns == 2        \* successive runs of a script
MaxFaults == 2      \* remote calls that may fail, all runs together

NULL == "NULL"

-----------------------------------------------------------------------------
(* Generic helpers *)

Range(s) == {s[k] : k \in DOMAIN s}

\* the values of the unique-id column
Ident(df) == {df[k].uid : k \in DOMAIN df}

RECURSIVE SortSet(_)
SortSet(S) ==
    IF S = {} THEN <<>>
    ELSE LET m == CHOOSE x \in S : \A y \in S : x <= y
         IN <<m>> \o SortSet(S \ {m})

\* the list as it was logged
AsLogged(list) == list

\* sorted(set(changes))
SortedUnique(list) == SortSet(Range(list))

\* df[col].tolist() for the unique-id column
IdList(df) == [k \in DOMAIN df |-> df[k].uid]

Count(df, id) == Cardinality({k \in DOMAIN df : df[k].uid = id})

Unique(df) == \A i, j \in DOMAIN df : df[i].uid = df[j].uid => i = j

\* pd.isna / pd.isnull
isna(v) == v = NULL

\* the elements of s at the indices in I, in order
Pick(s, I) ==
    LET F[k \in 0..Len(s)] ==
            IF k = 0 THEN <<>>
            ELSE IF k \in I THEN Append(F[k-1], s[k]) ELSE F[k-1]
    IN F[Len(s)]

\* "attributes" + "geometry" of a row: every column but SHAPE, and the SHAPE as geometry
ToFeature(row) ==
    [f \in (DOMAIN row \ {"SHAPE"}) \cup {"geometry"} |->
        IF f = "geometry" THEN row.SHAPE ELSE row[f]]

\* datetime.now() of run r
Today(r) == "today" \o ToString(r)

\* geom.generalize(5)
generalize(g) == g \o "~5m"

\* SelectLayerByLocation ... "INTERSECT": g1 and g2 touch, every other pair of
\* distinct geometries is disjoint, a null geometry intersects nothing
Intersects(g, h) ==
    /\ g # NULL /\ h # NULL
    /\ (g = h \/ {g, h} = {"g1", "g2"})

Geom(i) == "g" \o ToString(i)

-----------------------------------------------------------------------------
(* Remote calls: what the feature service may answer *)

\* layer.edit_features(adds=feats): either no addResults at all, or one result per
\* feature; ok is the set of positions whose result has success = True
EditResults(feats) ==
    {[has_results |-> TRUE, ok |-> S] : S \in SUBSET DOMAIN feats}
        \cup {[has_results |-> FALSE, ok |-> {}]}

AllAdded(feats, res) == res.has_results /\ res.ok = DOMAIN feats

\* layer.delete_features(where = "uid in (ids)"): the identities actually deleted
DeleteResults(layer, ids) == SUBSET (Ident(layer) \cap ids)

\* a truncate that leaves the layer as it is
NoTruncate(layer) == layer

\* layer.manager.truncate()
truncate(layer) == <<>>

DeleteWhere(df, ids) == SelectSeq(df, LAMBDA r : r.uid \notin ids)

\* a remote call answers; an answer other than full success uses up one of MaxFaults
Answer(ok) ==
    /\ ok \/ faults < MaxFaults
    /\ faults' = IF ok THEN faults ELSE faults + 1

-----------------------------------------------------------------------------
(* FNRI: fnri_dataSync.py and fnri_dataSync_gdbAgo.py *)

FNRI == {"fnri_dataSync", "fnri_dataSync_gdbAgo"}

ReviewComplete == "Review Complete"
ReadyToPublish == "Ready to Publish"
ToBeRetired    == "To be Retired from Working Data"
Published      == "Published"

required == {"FIRST_NATION", "AGREEMENT_TYPE", "AGREEMENT_STAGE", "AGREEMENT_LINK"}

edit_fields(p) ==
    {"FIRST_NATION", "AGREEMENT_TYPE", "AGREEMENT_STAGE", "AGREEMENT_LINK",
     "CONTACT_NAME", "CONTACT_EMAIL", "DATE_CREATED",
     "Review_Status_FNLT", "Review_Status_MIRR", "Publish_Status"}
        \cup (IF p = "fnri_dataSync_gdbAgo" THEN {"Parcel_Name"} ELSE {})

FnriLogKeys(p) ==
    {"append_new_areas_to_agol", "retired_records_deleted",
     "modify_edited_agol_attributes", "flag_missing_attributes",
     "move_published_to_staging", "flag_spatial_overlaps_staging",
     "flag_failed_to_ago_publish_staging"}
        \cup (IF p = "fnri_dataSync" THEN {"delete_removed_records_from_agol"} ELSE {})

fnri_header_mapping(p) ==
    IF p = "fnri_dataSync"
    THEN <<"append_new_areas_to_agol", "retired_records_deleted",
           "modify_edited_agol_attributes", "flag_missing_attributes",
           "move_published_to_staging", "flag_spatial_overlaps_staging",
           "delete_removed_records_from_agol", "flag_failed_to_ago_publish_staging">>
    ELSE <<"append_new_areas_to_agol", "retired_records_deleted",
           "modify_edited_agol_attributes", "flag_missing_attributes",
           "move_published_to_staging", "flag_spatial_overlaps_staging",
           "flag_failed_to_ago_publish_staging">>

\* get_agol_data / get_local_data: the layer's features, the feature class's rows
get_agol_data(layer) == layer
get_local_data(fc) == fc

\* pd.DataFrame([]) has no columns: agol_df[col] and agol_df.set_index(col) raise KeyError
KeyError(adf) == Len(adf) = 0

Extend(log, key, ids) == [log EXCEPT ![key] = @ \o ids]

\* append_new_areas_to_agol: local rows whose identity is not in AGOL
local_new(ldf, adf) == SelectSeq(ldf, LAMBDA r : r.uid \notin Ident(adf))

NewFeatures(rows) == [k \in DOMAIN rows |-> ToFeature(rows[k])]

\* delete_retired_working_records: AGOL rows marked for retirement
agol_to_delete(adf) == SelectSeq(adf, LAMBDA r : r.Publish_Status = ToBeRetired)

\* Python's "a != l" on dataframe cells: NaN and NaT are unequal to every value,
\* themselves included
ne(a, l) == isna(a) \/ isna(l) \/ a # l

\* a comparison without the null check
PlainDiffers(a, l) == ne(a, l)

\* the null-aware comparison of one watched field: "if pd.isna(a) and pd.isna(l):
\* continue", then "if a != l"
Differs(a, l) == ~(isna(a) /\ isna(l)) /\ ne(a, l)

LocalRow(ldf, id) == CHOOSE r \in Range(ldf) : r.uid = id

\* modify_edited_agol_attributes: modified_ids, in AGOL row order
modified_ids(adf, ldf, fields) ==
    IdList(SelectSeq(adf, LAMBDA a :
        /\ a.uid \in Ident(ldf)
        /\ \E f \in fields : Differs(a[f], LocalRow(ldf, a.uid)[f])))

\* an UpdateCursor that writes nothing
NoAgolEdits(fc, adf, ids, fields) == fc

\* an UpdateCursor over every attribute of the row
CopyAgolRow(fc, adf, ids, fields) ==
    [k \in DOMAIN fc |->
        IF fc[k].uid \in ids
        THEN LET a == CHOOSE r \in Range(adf) : r.uid = fc[k].uid
             IN [f \in DOMAIN fc[k] |-> IF f \in DOMAIN a THEN a[f] ELSE fc[k][f]]
        ELSE fc[k]]

\* the UpdateCursor of modify_edited_agol_attributes
ApplyAgolEdits(fc, adf, ids, fields) ==
    [k \in DOMAIN fc |->
        IF fc[k].uid \in ids
        THEN LET a == CHOOSE r \in Range(adf) : r.uid = fc[k].uid
             IN [f \in DOMAIN fc[k] |-> IF f \in fields THEN a[f] ELSE fc[k][f]]
        ELSE fc[k]]

ReviewFields == {"Review_Status_FNLT", "Review_Status_MIRR"}

\* df[col] and df[[cols]] raise KeyError when the dataframe has no such column; the
\* columns of local_df are the fields of the feature class
MissingColumns(df, cols) == \E k \in DOMAIN df : ~(cols \subseteq DOMAIN df[k])

\* the columns of local_df that a stage indexes by name
StageColumns(p, stage) ==
    IF stage = "modify_edited_agol_attributes" THEN edit_fields(p)
    ELSE IF stage = "flag_missing_attributes"
         THEN ReviewFields \cup required
                 \cup (IF p = "fnri_dataSync" THEN {} ELSE {"Publish_Status"})
    ELSE IF stage = "move_published_to_staging"
         THEN {"Publish_Status"} \cup (IF p = "fnri_dataSync" THEN ReviewFields ELSE {})
    ELSE {}

ReviewDone(r) ==
    /\ r.Review_Status_FNLT = ReviewComplete
    /\ r.Review_Status_MIRR = ReviewComplete

MissingRequired(r) == \E f \in required : isna(r[f])

\* flag_missing_attributes: the mask
FlagMask(p, r) ==
    IF p = "fnri_dataSync"
    THEN ReviewDone(r) /\ MissingRequired(r)
    ELSE r.Publish_Status = ReadyToPublish /\ (~ReviewDone(r) \/ MissingRequired(r))

\* move_published_to_staging: the mask
MoveMask(p, r) ==
    IF p = "fnri_dataSync"
    THEN ReviewDone(r) /\ r.Publish_Status = ReadyToPublish
    ELSE r.Publish_Status = ReadyToPublish

\* a pre-delete of every staging row
AllStaged(staging, rows) == Ident(staging)

\* a move that deletes nothing from staging before it inserts
NoDupIds(staging, rows) == {}

\* move_published_to_staging, 1): identities to delete from staging first
DupIds(staging, rows) == Ident(staging) \cap Ident(rows)

\* an insert that does not stamp DATE_CREATED
PromoteUnstamped(row, today) == [row EXCEPT !.Publish_Status = Published]

\* move_published_to_staging, 2): the row inserted into staging
Promote(row, today) ==
    [f \in DOMAIN row |->
        IF f = "DATE_CREATED" THEN today
        ELSE IF f = "Publish_Status" THEN Published
        ELSE row[f]]

\* an overlap check that looks only at the staging rows that were not just moved
overlap_ids_older(staging, moved) ==
    {u \in Ident(staging) \cap moved :
        \E k, j \in DOMAIN staging :
            /\ staging[k].uid \notin moved
            /\ staging[j].uid = u /\ Intersects(staging[j].SHAPE, staging[k].SHAPE)}

\* move_published_to_staging, overlap check: moved identities whose geometry
\* intersects another staging row
overlap_ids(staging, moved) ==
    {u \in Ident(staging) \cap moved :
        \E k \in DOMAIN staging :
            /\ staging[k].uid # u
            /\ \E j \in DOMAIN staging :
                  staging[j].uid = u /\ Intersects(staging[j].SHAPE, staging[k].SHAPE)}

\* a delete-removed stage that finds no AGOL row removed
agol_none(adf, ldf) == <<>>

\* a delete-removed stage that takes every AGOL row for removed
agol_all(adf, ldf) == adf

\* delete_removed_local_records_from_agol: AGOL rows whose identity is not local
agol_deleted(adf, ldf) == SelectSeq(adf, LAMBDA r : r.uid \notin Ident(ldf))

\* export_change_log: one section per non-empty category, else the no-changes line
Report(log, header_mapping) ==
    LET keys == SelectSeq(header_mapping,
                          LAMBDA k : k \in DOMAIN log /\ log[k] # <<>>)
    IN IF keys = <<>>
       THEN <<[key |-> "no changes detected", count |-> 0, ids |-> <<>>]>>
       ELSE [i \in DOMAIN keys |->
                [key |-> keys[i],
                 count |-> Len(SortedUnique(log[keys[i]])),
                 ids |-> SortedUnique(log[keys[i]])]]

-----------------------------------------------------------------------------
(* FNRI: the stores a run may start from *)

FnriRow(i, link, mirr, status) ==
    [uid |-> i, FIRST_NATION |-> "fn", AGREEMENT_TYPE |-> "type",
     AGREEMENT_STAGE |-> "stage", AGREEMENT_LINK |-> link,
     CONTACT_NAME |-> "name", CONTACT_EMAIL |-> NULL, DATE_CREATED |-> NULL,
     Parcel_Name |-> "parcel", Review_Status_FNLT |-> ReviewComplete,
     Review_Status_MIRR |-> mirr, Publish_Status |-> status, SHAPE |-> Geom(i)]

\* working GDB rows of identity i: identity 1 takes every combination, the others two,
\* and one that is ready to publish and has no geometry
LocalOptions(i) ==
    IF i = 1
    THEN {FnriRow(i, l, m, s) : l \in {NULL, "link"},
                                m \in {ReviewComplete, "In Review"},
                                s \in {ReadyToPublish, "Not Ready"}}
    ELSE {FnriRow(i, "link", ReviewComplete, s) : s \in {ReadyToPublish, "Not Ready"}}
            \cup {[FnriRow(i, "link", ReviewComplete, ReadyToPublish) EXCEPT !.SHAPE = NULL]}

\* what the AGOL copy of local row L may look like after an edit in AGOL; one edit
\* changes the link and the parcel name together
AgolEdits(L) ==
    {L, [L EXCEPT !.Publish_Status = ToBeRetired]}
        \cup (IF L.uid = 1
              THEN {[L EXCEPT !.Publish_Status = ReadyToPublish],
                    [L EXCEPT !.AGREEMENT_LINK = IF @ = NULL THEN "link" ELSE NULL]}
              ELSE {})
        \cup (IF L.uid = 1 /\ L.Publish_Status = "Not Ready"
                            /\ L.Review_Status_MIRR = ReviewComplete
              THEN {[L EXCEPT !.AGREEMENT_LINK = "newlink", !.Parcel_Name = "renamed"]}
              ELSE {})

AgolOnly(i) ==
    {FnriRow(i, "link", ReviewComplete, "Not Ready")}
        \cup (IF i = 1 THEN {FnriRow(i, "link", ReviewComplete, ToBeRetired)} ELSE {})

\* identity i in the working GDB (loc) and in the working AGOL layer (ago)
WorkingChoices(i) ==
    {[loc |-> <<>>, ago |-> <<>>]}
        \cup {[loc |-> <<>>, ago |-> <<ToFeature(a)>>] : a \in AgolOnly(i)}
        \cup UNION {{[loc |-> <<L>>, ago |-> <<>>]}
                        \cup {[loc |-> <<L>>, ago |-> <<ToFeature(a)>>] : a \in AgolEdits(L)}
                    : L \in LocalOptions(i)}

\* an earlier published version of identity i in the staging GDB
OldStaged(i, shape) ==
    [FnriRow(i, "oldlink", ReviewComplete, Published)
        EXCEPT !.DATE_CREATED = "d0", !.SHAPE = shape]

StagingChoices(i) ==
    {<<>>, <<OldStaged(i, Geom(i))>>}
        \cup (IF i = 1 THEN {<<OldStaged(i, NULL)>>} ELSE {})

\* a feature of the staging AGOL layer whose identity is no longer in the staging GDB
StaleFeature == ToFeature(OldStaged(0, "g0"))

empty_log(keys) == [k \in keys |-> <<>>]

NoPrev ==
    [change_log |-> <<>>, raised |-> FALSE, agol_staging |-> <<>>, agol_main |-> <<>>,
     agol_cust |-> <<>>]

\* the stores holding identities 1..n, rows in identity order
RECURSIVE FnriStores(_)
FnriStores(n) ==
    IF n = 0 THEN {[loc |-> <<>>, ago |-> <<>>, st |-> <<>>]}
    ELSE {[loc |-> s.loc \o w.loc, ago |-> s.ago \o w.ago, st |-> s.st \o t] :
              s \in FnriStores(n - 1), w \in WorkingChoices(n), t \in StagingChoices(n)}

\* the rows of a feature class whose schema has no field col
WithoutField(fc, col) ==
    [k \in DOMAIN fc |-> [f \in DOMAIN fc[k] \ {col} |-> fc[k][f]]]

\* the working feature class has every field, or it has rows, all of them already in
\* the working AGOL layer, and no Review_Status_MIRR field
InitFnri ==
    /\ program \in FNRI
    /\ \E s \in FnriStores(NumIds) :
          /\ \/ working_fc = s.loc
             \/ /\ s.loc # <<>> /\ Ident(s.loc) \subseteq Ident(s.ago)
                /\ working_fc = WithoutField(s.loc, "Review_Status_MIRR")
          /\ agol_working = s.ago
          /\ staging_fc = s.st
    /\ agol_staging =
          <<StaleFeature>> \o NewFeatures(SelectSeq(staging_fc, LAMBDA r : r.SHAPE # NULL))
    /\ bcgw_staging_fc = <<>>
    /\ master_fc = <<>> /\ agol_main = <<>> /\ agol_cust = <<>> /\ IPCA_custom = <<>>
    /\ change_log = empty_log(FnriLogKeys(program))

\* the stores a run starts from
StartOfRun ==
    [working_fc |-> working_fc, agol_working |-> agol_working, staging_fc |-> staging_fc,
     master_fc |-> master_fc, agol_main |-> agol_main]

InitCommon ==
    /\ run = 1 /\ pc = "connect" /\ gis = "none" /\ raised = FALSE
    /\ local_df = <<>> /\ agol_df = <<>>
    /\ to_move = <<>> /\ dup_ids = {} /\ stopped = {}
    /\ cursor = <<>> /\ failed_ids = <<>> /\ outcomes = <<>> /\ calls = <<>>
    /\ exported = <<>>
    /\ faults = 0
    /\ prev = NoPrev
    /\ at_start = StartOfRun

-----------------------------------------------------------------------------
(* IPCA: ipca_dataset_workflow.py *)

IPCA == "ipca_dataset_workflow"

editCols ==
    {"PROJECT_ID", "FIRST_NATION_GROUP", "PROJECT_NAME", "PRIVACY_LEVEL", "DATA_SOURCE",
     "SPATIAL_ACCURACY", "LAST_MODIFIED_DATE", "UPDATE_LOG", "EDITOR_NAME"}

last_modified_field == "LAST_MODIFIED_DATE"

DeleteShape == "Delete Shape"

\* a where clause that selects every record
any_privacy(r) == TRUE

custom_clause(r) == r.PRIVACY_LEVEL \in {"Unrestricted", "Internal only"}

chunk_size == 5

IpcaLogKeys ==
    {"delete_removed_local_records_from_agol", "append_new_local_records_to_agol",
     "append_new_agol_records", "delete_removed_agol_records",
     "append_edited_agol_records", "detect_modified_local_records"}

ipca_header_mapping ==
    <<"delete_removed_local_records_from_agol", "append_new_local_records_to_agol",
      "append_new_agol_records", "delete_removed_agol_records",
      "append_edited_agol_records", "detect_modified_local_records">>

\* the order of the dates that occur: t1 < t2 < today of run 1 < today of run 2 < ...
TimeOrd(t) ==
    IF t = "t1" THEN 1
    ELSE IF t = "t2" THEN 2
    ELSE 2 + (CHOOSE r \in 1..(MaxRuns + 1) : t = Today(r))

\* the feature as the service stores it: EditDate is set by the server
Served(feat, now) ==
    [f \in DOMAIN feat \cup {"EditDate"} |-> IF f = "EditDate" THEN now ELSE feat[f]]

ServedAll(feats, now) == [k \in DOMAIN feats |-> Served(feats[k], now)]

AgolRow(adf, id) == CHOOSE r \in Range(adf) : r.uid = id

\* append_edited_agol_records: AGOL's modification date, LAST_MODIFIED_DATE else EditDate
agol_modified_date(a) ==
    IF isna(a[last_modified_field]) THEN a.EditDate ELSE a[last_modified_field]

\* a comparison that lets AGOL win whatever the two Timestamps are
AgolAlwaysWins(a, l) == TRUE

\* append_edited_agol_records: the comparison of the two Timestamps
AgolWins(a, l) ==
    \/ isna(l[last_modified_field])
    \/ /\ ~isna(agol_modified_date(a))
       /\ TimeOrd(agol_modified_date(a)) >= TimeOrd(l[last_modified_field])

\* append_edited_agol_records: edited_rows, in AGOL row order
edited_rows(adf, ldf) ==
    IdList(SelectSeq(adf, LAMBDA a :
        /\ a.uid \in Ident(ldf)
        /\ \E col \in editCols : Differs(a[col], LocalRow(ldf, a.uid)[col])
        /\ AgolWins(a, LocalRow(ldf, a.uid))))

\* append_edited_agol_records and append_new_agol_records: the value written to
\* LAST_MODIFIED_DATE
NewLastModified(a, today) ==
    IF ~isna(a[last_modified_field]) THEN a[last_modified_field]
    ELSE IF ~isna(a.EditDate) THEN a.EditDate
    ELSE today

\* append_edited_agol_records: the UpdateCursor
ApplyEditedAgol(fc, adf, ids, today) ==
    [k \in DOMAIN fc |->
        IF fc[k].uid \in ids
        THEN LET a == AgolRow(adf, fc[k].uid)
             IN [f \in DOMAIN fc[k] |->
                    IF f = last_modified_field THEN NewLastModified(a, today)
                    ELSE IF f \in editCols THEN a[f]
                    ELSE IF f = "AGO_PUBLISH_DATE" THEN today
                    ELSE IF f = "AGO_PUBLISH_YN" THEN "Yes"
                    ELSE fc[k][f]]
        ELSE fc[k]]

\* detect_modified_local_records: "agol_row.get(last_modified_field) or
\* agol_row.get('EditDate')": the column holds Timestamps and NaT, both truthy, so
\* the value is LAST_MODIFIED_DATE and EditDate is never used
agol_modified_date_or(a) == a[last_modified_field]

\* detect_modified_local_records: the comparison
LocalWins(a, l) ==
    /\ ~isna(l[last_modified_field])
    /\ \/ isna(agol_modified_date_or(a))
       \/ TimeOrd(l[last_modified_field]) > TimeOrd(agol_modified_date_or(a))

\* detect_modified_local_records: modified_ids, in local row order
locally_modified_ids(adf, ldf) ==
    IdList(SelectSeq(ldf, LAMBDA l :
        /\ l.uid \in Ident(adf)
        /\ \E col \in editCols : Differs(AgolRow(adf, l.uid)[col], l[col])
        /\ LocalWins(AgolRow(adf, l.uid), l)))

\* append_new_agol_records: AGOL rows with a geometry whose identity is not local
agol_new(adf, ldf) ==
    SelectSeq(adf, LAMBDA a : a.uid \notin Ident(ldf) /\ ~isna(a.geometry))

\* append_new_agol_records: the row inserted into the master dataset
MasterRow(a, today) ==
    [f \in (DOMAIN a \ {"geometry", "EditDate"}) \cup {"SHAPE"} |->
        IF f = "SHAPE" THEN a.geometry
        ELSE IF f = last_modified_field THEN NewLastModified(a, today)
        ELSE IF f = "AGO_PUBLISH_DATE" /\ isna(a[f]) THEN today
        ELSE IF f = "AGO_PUBLISH_YN" THEN "Yes"
        ELSE a[f]]

\* update_agol_fields
PublishFlags(fc, today) ==
    [k \in DOMAIN fc |->
        IF fc[k].AGO_PUBLISH_YN = "No" \/ isna(fc[k].AGO_PUBLISH_YN)
        THEN [fc[k] EXCEPT !.AGO_PUBLISH_YN = "Yes", !.AGO_PUBLISH_DATE = today]
        ELSE fc[k]]

\* overwrite_feature_layer: the features list built from the master dataset
\* a features list that keeps the rows without a geometry
all_rows_features(fc, main) ==
    NewFeatures(SelectSeq(fc, LAMBDA r : main \/ custom_clause(r)))

ipca_features(fc, main) ==
    NewFeatures(SelectSeq(fc, LAMBDA r : (main \/ custom_clause(r)) /\ r.SHAPE # NULL))

\* copy_master_dataset(master_fc, main_gdb, 'IPCA_custom', custom_clause)
copy_master_dataset(fc) == SelectSeq(fc, LAMBDA r : custom_clause(r))

Min(a, b) == IF a <= b THEN a ELSE b

-----------------------------------------------------------------------------
(* IPCA: the stores a run may start from *)

IpcaRow(i, name, lmd, privacy, shape) ==
    [uid |-> i, PROJECT_ID |-> "p", FIRST_NATION_GROUP |-> "fng", PROJECT_NAME |-> name,
     PRIVACY_LEVEL |-> privacy, DATA_SOURCE |-> "src", SPATIAL_ACCURACY |-> NULL,
     LAST_MODIFIED_DATE |-> lmd, UPDATE_LOG |-> NULL, EDITOR_NAME |-> "ed",
     AGO_PUBLISH_YN |-> "Yes", AGO_PUBLISH_DATE |-> "t1", SHAPE |-> shape]

MasterOptions(i) ==
    IF i = 1
    THEN {IpcaRow(i, n, t, pr, Geom(i)) : n \in {"pn", NULL}, t \in {NULL, "t1", "t2"},
                                          pr \in {"Unrestricted", "Confidential"}}
            \cup {IpcaRow(i, "pn", "t1", "Unrestricted", NULL)}
    ELSE {IpcaRow(i, "pn", "t1", "Internal only", Geom(i)),
          [IpcaRow(i, "pn", "t1", "Internal only", Geom(i)) EXCEPT !.AGO_PUBLISH_YN = "No"]}

\* what the AGOL copy of master row M may look like after an edit in AGOL
AgolCopies(M) ==
    {Served(ToFeature(M), "t1"),
     Served(ToFeature([M EXCEPT !.UPDATE_LOG = DeleteShape]), "t2")}
        \cup (IF M.uid = 1
              THEN {Served(ToFeature([M EXCEPT
                        !.PROJECT_NAME = IF @ = NULL THEN "pn" ELSE NULL,
                        !.LAST_MODIFIED_DATE = t]), e) :
                            t \in {NULL, "t1", "t2"}, e \in {"t1", "t2"}}
              ELSE {})

AgolOnlyFeatures(i) ==
    {Served(ToFeature(IpcaRow(i, "pn", NULL, "Unrestricted", Geom(i))), "t2")}
        \cup (IF i = 1
              THEN {Served(ToFeature(IpcaRow(i, "pn", "t1", "Unrestricted", NULL)), "t2")}
              ELSE {})

\* identity i in the master dataset (loc) and in the main AGOL layer (ago)
IpcaChoices(i) ==
    {[loc |-> <<>>, ago |-> <<>>]}
        \cup {[loc |-> <<>>, ago |-> <<a>>] : a \in AgolOnlyFeatures(i)}
        \cup UNION {{[loc |-> <<M>>, ago |-> <<>>]}
                        \cup {[loc |-> <<M>>, ago |-> <<a>>] : a \in AgolCopies(M)}
                    : M \in MasterOptions(i)}

RECURSIVE IpcaStores(_)
IpcaStores(n) ==
    IF n = 0 THEN {[loc |-> <<>>, ago |-> <<>>]}
    ELSE {[loc |-> s.loc \o c.loc, ago |-> s.ago \o c.ago] :
              s \in IpcaStores(n - 1), c \in IpcaChoices(n)}

\* a feature of the custom layer left by an earlier run
StaleCustom == Served(ToFeature(IpcaRow(0, "pn", "t1", "Confidential", "g0")), "t1")

InitIpca ==
    /\ program = IPCA
    /\ \E s \in IpcaStores(NumIds) :
          /\ master_fc = s.loc
          /\ agol_main = s.ago
    /\ agol_cust = <<StaleCustom>>
    /\ IPCA_custom = <<>>
    /\ working_fc = <<>> /\ staging_fc = <<>> /\ agol_working = <<>>
    /\ agol_staging = <<>> /\ bcgw_staging_fc = <<>>
    /\ change_log = empty_log(IpcaLogKeys)

-----------------------------------------------------------------------------
(* __main__: connect *)

FirstStage(p) ==
    IF p \in FNRI THEN "append_new_areas_to_agol"
    ELSE "delete_removed_local_records_from_agol"

\* AGOConnector.connect, the first statement of the try block that can fail
connect ==
    /\ pc = "connect"
    /\ \/ /\ gis' = "connected" /\ pc' = FirstStage(program)
          /\ UNCHANGED raised /\ Answer(TRUE)
       \/ /\ gis' = "none" /\ pc' = "finally"
          /\ raised' = TRUE /\ Answer(FALSE)
    /\ UNCHANGED <<program, run, fnriStores, ipcaStores, snapshots, change_log,
                   moveLocals, pubLocals, exported, prev, at_start>>

-----------------------------------------------------------------------------
(* FNRI: the stages of __main__ *)

\* __main__: get_agol_data, get_local_data, append_new_areas_to_agol
append_new_areas_to_agol ==
    /\ program \in FNRI /\ pc = "append_new_areas_to_agol"
    /\ LET adf == get_agol_data(agol_working)
           ldf == get_local_data(working_fc)
           new == local_new(ldf, adf)
           feats == NewFeatures(new)
       IN /\ ~KeyError(adf)
          /\ agol_df' = adf /\ local_df' = ldf
          /\ IF new = <<>>
             THEN UNCHANGED <<agol_working, change_log, faults>>
             ELSE \E res \in EditResults(feats) :
                    /\ agol_working' = agol_working \o Pick(feats, res.ok)
                    /\ change_log' =
                          IF res.has_results
                          THEN Extend(change_log, "append_new_areas_to_agol", IdList(new))
                          ELSE change_log
                    /\ Answer(AllAdded(feats, res))
    /\ pc' = "delete_retired_working_records"
    /\ UNCHANGED <<program, run, gis, raised, working_fc, staging_fc, agol_staging,
                   bcgw_staging_fc, ipcaStores, moveLocals, pubLocals, exported, prev, at_start>>

\* __main__: re-read both, delete_retired_working_records
delete_retired_working_records ==
    /\ program \in FNRI /\ pc = "delete_retired_working_records"
    /\ LET ldf == get_local_data(working_fc)
           adf == get_agol_data(agol_working)
           unique_ids == IdList(agol_to_delete(adf))
       IN /\ ~KeyError(adf)
          /\ agol_df' = adf /\ local_df' = ldf
          /\ IF unique_ids = <<>>
             THEN UNCHANGED <<agol_working, working_fc, change_log, faults>>
             ELSE \E deleted \in DeleteResults(agol_working, Range(unique_ids)) :
                    /\ agol_working' = DeleteWhere(agol_working, deleted)
                    /\ working_fc' = DeleteWhere(working_fc, Range(unique_ids))
                    /\ change_log' = Extend(change_log, "retired_records_deleted", unique_ids)
                    /\ Answer(deleted = Range(unique_ids))
    /\ pc' = "modify_edited_agol_attributes"
    /\ UNCHANGED <<program, run, gis, raised, staging_fc, agol_staging,
                   bcgw_staging_fc, ipcaStores, moveLocals, pubLocals, exported, prev, at_start>>

\* __main__: re-read both, modify_edited_agol_attributes
modify_edited_agol_attributes ==
    /\ program \in FNRI /\ pc = "modify_edited_agol_attributes"
    /\ LET ldf == get_local_data(working_fc)
           adf == get_agol_data(agol_working)
           unique_ids == Range(modified_ids(adf, ldf, edit_fields(program)))
       IN /\ ~KeyError(adf)
          /\ ~MissingColumns(ldf, StageColumns(program, pc))
          /\ agol_df' = adf /\ local_df' = ldf
          /\ working_fc' = ApplyAgolEdits(working_fc, adf, unique_ids, edit_fields(program))
          /\ change_log' = Extend(change_log, "modify_edited_agol_attributes",
                                  SortSet(unique_ids))
    /\ pc' = "flag_missing_attributes"
    /\ UNCHANGED <<program, run, gis, raised, staging_fc, agol_working, agol_staging,
                   bcgw_staging_fc, ipcaStores, moveLocals, pubLocals, exported,
                   faults, prev, at_start>>

\* __main__: re-read both, flag_missing_attributes
flag_missing_attributes ==
    /\ program \in FNRI /\ pc = "flag_missing_attributes"
    /\ LET ldf == get_local_data(working_fc)
           adf == get_agol_data(agol_working)
           missing == IdList(SelectSeq(ldf, LAMBDA r : FlagMask(program, r)))
       IN /\ ~MissingColumns(ldf, StageColumns(program, pc))
          /\ agol_df' = adf /\ local_df' = ldf
          /\ change_log' = Extend(change_log, "flag_missing_attributes", missing)
    /\ pc' = "move_published_to_staging"
    /\ UNCHANGED <<program, run, gis, raised, fnriStores, ipcaStores, moveLocals,
                   pubLocals, exported, faults, prev, at_start>>

\* an insert loop that writes no row
NoInsert(fc, rows) == fc

\* arcpy.da.InsertCursor(staging_fc, fields), insertRow for each row
InsertCursor(fc, rows) == fc \o rows

AfterMove(p) ==
    IF p = "fnri_dataSync" THEN "delete_removed_local_records_from_agol"
    ELSE "overwrite_feature_layer"

\* __main__: re-read local; move_published_to_staging up to and including
\* 1) the delete of the staging rows that are about to be replaced
move_published_to_staging ==
    /\ program \in FNRI /\ pc = "move_published_to_staging"
    /\ LET ldf == get_local_data(working_fc)
           rows == SelectSeq(ldf, LAMBDA r : MoveMask(program, r))
           dup == DupIds(staging_fc, rows)
       IN /\ ~MissingColumns(ldf, StageColumns(program, pc))
          /\ local_df' = ldf
          /\ to_move' = rows
          /\ dup_ids' = dup
          /\ IF rows = <<>>
             THEN pc' = AfterMove(program) /\ UNCHANGED staging_fc
             ELSE pc' = "move_insert" /\ staging_fc' = DeleteWhere(staging_fc, dup)
    /\ UNCHANGED <<program, run, gis, raised, working_fc, agol_working, agol_staging,
                   bcgw_staging_fc, ipcaStores, agol_df, change_log, stopped, pubLocals,
                   exported, faults, prev, at_start>>

\* move_published_to_staging, 2): the InsertCursor loop
move_insert ==
    /\ pc = "move_insert"
    /\ staging_fc' = InsertCursor(staging_fc,
                                  [k \in DOMAIN to_move |-> Promote(to_move[k], Today(run))])
    /\ pc' = "move_delete_working"
    /\ UNCHANGED <<program, run, gis, raised, working_fc, agol_working, agol_staging,
                   bcgw_staging_fc, ipcaStores, snapshots, change_log, moveLocals,
                   pubLocals, exported, faults, prev, at_start>>

\* move_published_to_staging raises between the delete of the staging duplicates and
\* the delete of the working rows: the InsertCursor has written the first n rows of
\* to_move (none, some or all); __main__'s except clause catches the exception
move_stops ==
    /\ pc \in {"move_insert", "move_delete_working"}
    /\ \E n \in 0..Len(to_move) :
          /\ pc = "move_delete_working" => n = 0
          /\ staging_fc' = InsertCursor(staging_fc,
                                        [k \in 1..n |-> Promote(to_move[k], Today(run))])
    /\ stopped' = Ident(to_move)
    /\ to_move' = <<>> /\ dup_ids' = {}
    /\ raised' = TRUE
    /\ pc' = "finally"
    /\ UNCHANGED <<program, run, gis, working_fc, agol_working, agol_staging,
                   bcgw_staging_fc, ipcaStores, snapshots, change_log, pubLocals,
                   exported, faults, prev, at_start>>

\* move_published_to_staging, 3): delete the moved rows from the working GDB
move_delete_working ==
    /\ pc = "move_delete_working"
    /\ working_fc' = DeleteWhere(working_fc, Ident(to_move))
    /\ pc' = IF program = "fnri_dataSync_gdbAgo" THEN "move_delete_ago" ELSE "move_overlap"
    /\ UNCHANGED <<program, run, gis, raised, staging_fc, agol_working, agol_staging,
                   bcgw_staging_fc, ipcaStores, snapshots, change_log, moveLocals,
                   pubLocals, exported, faults, prev, at_start>>

\* move_published_to_staging (gdbAgo), 4): delete the moved rows from the working AGOL layer
move_delete_ago ==
    /\ pc = "move_delete_ago"
    /\ \E deleted \in DeleteResults(agol_working, Ident(to_move)) :
          /\ agol_working' = DeleteWhere(agol_working, deleted)
          /\ Answer(deleted = Ident(agol_working) \cap Ident(to_move))
    /\ pc' = "move_overlap"
    /\ UNCHANGED <<program, run, gis, raised, working_fc, staging_fc, agol_staging,
                   bcgw_staging_fc, ipcaStores, snapshots, change_log, moveLocals,
                   pubLocals, exported, prev, at_start>>

\* move_published_to_staging: log the moved identities, then the spatial overlap check
move_overlap ==
    /\ pc = "move_overlap"
    /\ change_log' =
          Extend(Extend(change_log, "move_published_to_staging", SortSet(Ident(to_move))),
                 "flag_spatial_overlaps_staging",
                 SortSet(overlap_ids(staging_fc, Ident(to_move))))
    /\ pc' = AfterMove(program)
    /\ UNCHANGED <<program, run, gis, raised, fnriStores, ipcaStores, snapshots,
                   moveLocals, pubLocals, exported, faults, prev, at_start>>

\* __main__ (fnri_dataSync): re-read both, delete_removed_local_records_from_agol
fnri_delete_removed_local_records_from_agol ==
    /\ program = "fnri_dataSync" /\ pc = "delete_removed_local_records_from_agol"
    /\ LET ldf == get_local_data(working_fc)
           adf == get_agol_data(agol_working)
           unique_ids == IdList(agol_deleted(adf, ldf))
       IN /\ ~KeyError(adf)
          /\ agol_df' = adf /\ local_df' = ldf
          /\ change_log' = Extend(change_log, "delete_removed_records_from_agol", unique_ids)
          /\ IF unique_ids = <<>>
             THEN UNCHANGED <<agol_working, faults>>
             ELSE \E deleted \in DeleteResults(agol_working, Range(unique_ids)) :
                    /\ agol_working' = DeleteWhere(agol_working, deleted)
                    /\ Answer(deleted = Range(unique_ids))
    /\ pc' = "overwrite_feature_layer"
    /\ UNCHANGED <<program, run, gis, raised, working_fc, staging_fc, agol_staging,
                   bcgw_staging_fc, ipcaStores, moveLocals, pubLocals, exported, prev, at_start>>

\* a stage that indexes agol_df by a column while the AGOL layer is empty, or local_df
\* by a column the working feature class does not have: KeyError, caught by __main__'s
\* except clause
FnriAgolColumnStages ==
    {"append_new_areas_to_agol", "delete_retired_working_records",
     "modify_edited_agol_attributes", "delete_removed_local_records_from_agol"}

fnri_stage_raises ==
    /\ program \in FNRI
    /\ \/ pc \in FnriAgolColumnStages /\ KeyError(get_agol_data(agol_working))
       \/ MissingColumns(get_local_data(working_fc), StageColumns(program, pc))
    /\ agol_df' = get_agol_data(agol_working)
    /\ local_df' = get_local_data(working_fc)
    /\ raised' = TRUE
    /\ pc' = "finally"
    /\ UNCHANGED <<program, run, gis, fnriStores, ipcaStores, change_log, moveLocals,
                   pubLocals, exported, faults, prev, at_start>>

\* overwrite_feature_layer(staging_fc, agol_item_id_staging, "1=1") up to the
\* truncate; the SearchCursor then yields the rows of the staging GDB
fnri_overwrite_feature_layer ==
    /\ program \in FNRI /\ pc = "overwrite_feature_layer"
    /\ agol_staging' = truncate(agol_staging)
    /\ cursor' = staging_fc
    /\ failed_ids' = <<>>
    /\ outcomes' = <<>>
    /\ calls' = <<>>
    /\ pc' = "upload"
    /\ UNCHANGED <<program, run, gis, raised, working_fc, staging_fc, agol_working,
                   bcgw_staging_fc, ipcaStores, snapshots, change_log, moveLocals,
                   exported, faults, prev, at_start>>

\* what one pass of the upload loop may do with a row that has a geometry:
\* fnri_dataSync tries once, fnri_dataSync_gdbAgo retries once with generalize(5)
UploadOutcomes(p) ==
    IF p = "fnri_dataSync" THEN {"added", "failed"}
    ELSE {"added", "added_simplified", "failed"}

\* layer.edit_features(adds=...) with the identities sent, whether the geometry was
\* simplified, and whether every result was a success
edit_features(ids, simplified, ok) ==
    [op |-> "edit_features", ids |-> ids, simplified |-> simplified, ok |-> ok]

\* time.sleep(1), in ipca time.sleep(2)
sleep == [op |-> "sleep", ids |-> {}, simplified |-> FALSE, ok |-> TRUE]

\* the calls of one pass of the upload loop for a row with a geometry: fnri_dataSync
\* calls edit_features once; fnri_dataSync_gdbAgo calls try_add and, when it raises,
\* try_add again with the generalized geometry; both then sleep
UploadCalls(p, uid, outcome) ==
    IF outcome = "added" THEN <<edit_features({uid}, FALSE, TRUE), sleep>>
    ELSE IF p = "fnri_dataSync" THEN <<edit_features({uid}, FALSE, FALSE), sleep>>
    ELSE <<edit_features({uid}, FALSE, FALSE),
           edit_features({uid}, TRUE, outcome = "added_simplified"), sleep>>

\* an upload whose retry adds nothing
UploadedFirstTryOnly(row, outcome) == IF outcome = "added" THEN <<ToFeature(row)>> ELSE <<>>

\* the feature an upload pass leaves in the layer
Uploaded(row, outcome) ==
    IF outcome = "added" THEN <<ToFeature(row)>>
    ELSE IF outcome = "added_simplified"
         THEN <<[ToFeature(row) EXCEPT !.geometry = generalize(row.SHAPE)]>>
         ELSE <<>>

\* overwrite_feature_layer: one pass of the upload loop
fnri_upload ==
    /\ program \in FNRI /\ pc = "upload" /\ cursor # <<>>
    /\ LET row == Head(cursor)
       IN IF row.SHAPE = NULL
          THEN /\ outcomes' = Append(outcomes, "skipped")
               /\ UNCHANGED <<agol_staging, failed_ids, calls, faults>>
          ELSE \E outcome \in UploadOutcomes(program) :
                 /\ agol_staging' = agol_staging \o Uploaded(row, outcome)
                 /\ failed_ids' = IF outcome = "failed"
                                  THEN Append(failed_ids, row.uid) ELSE failed_ids
                 /\ outcomes' = Append(outcomes, outcome)
                 /\ calls' = calls \o UploadCalls(program, row.uid, outcome)
                 /\ Answer(outcome = "added")
    /\ cursor' = Tail(cursor)
    /\ pc' = "upload"
    /\ UNCHANGED <<program, run, gis, raised, working_fc, staging_fc, agol_working,
                   bcgw_staging_fc, ipcaStores, snapshots, change_log, moveLocals,
                   exported, prev, at_start>>

\* overwrite_feature_layer: after the loop, report the failures
fnri_upload_report ==
    /\ program \in FNRI /\ pc = "upload" /\ cursor = <<>>
    /\ change_log' = Extend(change_log, "flag_failed_to_ago_publish_staging", failed_ids)
    /\ pc' = IF program = "fnri_dataSync" THEN "export_change_log" ELSE "finally"
    /\ UNCHANGED <<program, run, gis, raised, fnriStores, ipcaStores, snapshots,
                   moveLocals, pubLocals, exported, faults, prev, at_start>>

-----------------------------------------------------------------------------
(* IPCA: the stages of __main__ *)

\* __main__: get_agol_data, get_local_data, delete_removed_local_records_from_agol
ipca_delete_removed_local_records_from_agol ==
    /\ program = IPCA /\ pc = "delete_removed_local_records_from_agol"
    /\ LET adf == get_agol_data(agol_main)
           ldf == get_local_data(master_fc)
           unique_ids == IdList(agol_deleted(adf, ldf))
       IN /\ ~KeyError(adf)
          /\ agol_df' = adf /\ local_df' = ldf
          /\ change_log' = Extend(change_log, "delete_removed_local_records_from_agol",
                                  unique_ids)
          /\ IF unique_ids = <<>>
             THEN UNCHANGED <<agol_main, faults>>
             ELSE \E deleted \in DeleteResults(agol_main, Range(unique_ids)) :
                    /\ agol_main' = DeleteWhere(agol_main, deleted)
                    /\ Answer(deleted = Range(unique_ids))
    /\ pc' = "delete_removed_agol_records"
    /\ UNCHANGED <<program, run, gis, raised, fnriStores, master_fc, agol_cust,
                   IPCA_custom, moveLocals, pubLocals, exported, prev, at_start>>

\* __main__: re-read both, delete_removed_agol_records
delete_removed_agol_records ==
    /\ program = IPCA /\ pc = "delete_removed_agol_records"
    /\ LET adf == get_agol_data(agol_main)
           ldf == get_local_data(master_fc)
           unique_ids == IdList(SelectSeq(adf, LAMBDA a : a.UPDATE_LOG = DeleteShape))
       IN /\ ~KeyError(adf)
          /\ agol_df' = adf /\ local_df' = ldf
          /\ IF unique_ids = <<>>
             THEN UNCHANGED <<agol_main, master_fc, change_log, faults>>
             ELSE \E deleted \in DeleteResults(agol_main, Range(unique_ids)) :
                    /\ agol_main' = DeleteWhere(agol_main, deleted)
                    /\ master_fc' = DeleteWhere(master_fc, Range(unique_ids))
                    /\ change_log' = Extend(change_log, "delete_removed_agol_records",
                                            unique_ids)
                    /\ Answer(deleted = Range(unique_ids))
    /\ pc' = "append_new_local_records_to_agol"
    /\ UNCHANGED <<program, run, gis, raised, fnriStores, agol_cust, IPCA_custom,
                   moveLocals, pubLocals, exported, prev, at_start>>

\* __main__: append_new_local_records_to_agol on the dataframes of the previous
\* stage (the two re-reads before it are commented out)
append_new_local_records_to_agol ==
    /\ program = IPCA /\ pc = "append_new_local_records_to_agol"
    /\ LET new == local_new(local_df, agol_df)
           feats == NewFeatures(new)
       IN IF new = <<>>
          THEN UNCHANGED <<agol_main, change_log, faults>>
          ELSE \E res \in EditResults(feats) :
                 /\ agol_main' = agol_main \o ServedAll(Pick(feats, res.ok), Today(run))
                 /\ change_log' =
                       IF res.has_results
                       THEN Extend(change_log, "append_new_local_records_to_agol",
                                   IdList(new))
                       ELSE change_log
                 /\ Answer(AllAdded(feats, res))
    /\ pc' = "detect_modified_local_records"
    /\ UNCHANGED <<program, run, gis, raised, fnriStores, master_fc, agol_cust,
                   IPCA_custom, snapshots, moveLocals, pubLocals, exported, prev, at_start>>

\* __main__: re-read both, detect_modified_local_records
detect_modified_local_records ==
    /\ program = IPCA /\ pc = "detect_modified_local_records"
    /\ LET ldf == get_local_data(master_fc)
           adf == get_agol_data(agol_main)
       IN /\ ~KeyError(adf)
          /\ agol_df' = adf /\ local_df' = ldf
          /\ change_log' = Extend(change_log, "detect_modified_local_records",
                                  locally_modified_ids(adf, ldf))
    /\ pc' = "append_edited_agol_records"
    /\ UNCHANGED <<program, run, gis, raised, fnriStores, ipcaStores, moveLocals,
                   pubLocals, exported, faults, prev, at_start>>

\* __main__: re-read both, append_edited_agol_records
append_edited_agol_records ==
    /\ program = IPCA /\ pc = "append_edited_agol_records"
    /\ LET ldf == get_local_data(master_fc)
           adf == get_agol_data(agol_main)
           ids == Range(edited_rows(adf, ldf))
       IN /\ ~KeyError(adf)
          /\ agol_df' = adf /\ local_df' = ldf
          /\ master_fc' = ApplyEditedAgol(master_fc, adf, ids, Today(run))
          /\ change_log' = Extend(change_log, "append_edited_agol_records", SortSet(ids))
    /\ pc' = "append_new_agol_records"
    /\ UNCHANGED <<program, run, gis, raised, fnriStores, agol_main, agol_cust,
                   IPCA_custom, moveLocals, pubLocals, exported, faults, prev, at_start>>

\* __main__: re-read both, append_new_agol_records
append_new_agol_records ==
    /\ program = IPCA /\ pc = "append_new_agol_records"
    /\ LET ldf == get_local_data(master_fc)
           adf == get_agol_data(agol_main)
           new == agol_new(adf, ldf)
       IN /\ ~KeyError(adf)
          /\ agol_df' = adf /\ local_df' = ldf
          /\ master_fc' = master_fc \o [k \in DOMAIN new |-> MasterRow(new[k], Today(run))]
          /\ change_log' = Extend(change_log, "append_new_agol_records", IdList(new))
    /\ pc' = "update_agol_fields"
    /\ UNCHANGED <<program, run, gis, raised, fnriStores, agol_main, agol_cust,
                   IPCA_custom, moveLocals, pubLocals, exported, faults, prev, at_start>>

\* a stage that indexes agol_df by a column while the main AGOL layer is empty:
\* KeyError, caught by __main__'s except clause
IpcaAgolColumnStages ==
    {"delete_removed_local_records_from_agol", "delete_removed_agol_records",
     "detect_modified_local_records", "append_edited_agol_records",
     "append_new_agol_records"}

ipca_stage_raises ==
    /\ program = IPCA /\ pc \in IpcaAgolColumnStages
    /\ KeyError(get_agol_data(agol_main))
    /\ agol_df' = get_agol_data(agol_main)
    /\ local_df' = get_local_data(master_fc)
    /\ raised' = TRUE
    /\ pc' = "finally"
    /\ UNCHANGED <<program, run, gis, fnriStores, ipcaStores, change_log, moveLocals,
                   pubLocals, exported, faults, prev, at_start>>

\* __main__: update_agol_fields
update_agol_fields ==
    /\ program = IPCA /\ pc = "update_agol_fields"
    /\ master_fc' = PublishFlags(master_fc, Today(run))
    /\ pc' = "overwrite_main"
    /\ UNCHANGED <<program, run, gis, raised, fnriStores, agol_main, agol_cust,
                   IPCA_custom, snapshots, change_log, moveLocals, pubLocals, exported,
                   faults, prev, at_start>>

\* overwrite_feature_layer(agol_item_id_main, "1=1") and
\* overwrite_feature_layer(agol_item_id_cust, custom_clause) up to the edit_features
\* loop: truncate, then build the features list from the master dataset
ipca_overwrite_feature_layer ==
    /\ program = IPCA /\ pc \in {"overwrite_main", "overwrite_cust"}
    /\ IF pc = "overwrite_main"
       THEN agol_main' = truncate(agol_main) /\ UNCHANGED agol_cust
       ELSE agol_cust' = truncate(agol_cust) /\ UNCHANGED agol_main
    /\ cursor' = ipca_features(master_fc, pc = "overwrite_main")
    /\ failed_ids' = <<>>
    /\ outcomes' = <<>>
    /\ calls' = <<>>
    /\ pc' = IF pc = "overwrite_main" THEN "upload_main" ELSE "upload_cust"
    /\ UNCHANGED <<program, run, gis, raised, fnriStores, master_fc, IPCA_custom,
                   snapshots, change_log, moveLocals, exported, faults, prev, at_start>>

\* overwrite_feature_layer: one pass of the edit_features loop, a chunk of
\* chunk_size features; a failed chunk is printed and the loop goes on
ipca_upload ==
    /\ program = IPCA /\ pc \in {"upload_main", "upload_cust"} /\ cursor # <<>>
    /\ LET n == Min(chunk_size, Len(cursor))
           chunk == SubSeq(cursor, 1, n)
       IN /\ \E res \in EditResults(chunk) :
                /\ IF pc = "upload_main"
                   THEN /\ agol_main' = agol_main \o ServedAll(Pick(chunk, res.ok), Today(run))
                        /\ UNCHANGED agol_cust
                   ELSE /\ agol_cust' = agol_cust \o ServedAll(Pick(chunk, res.ok), Today(run))
                        /\ UNCHANGED agol_main
                /\ outcomes' = Append(outcomes,
                                      IF AllAdded(chunk, res) THEN "added" ELSE "failed")
                /\ calls' = calls \o <<edit_features(Ident(chunk), FALSE, AllAdded(chunk, res)),
                                       sleep>>
                /\ Answer(AllAdded(chunk, res))
          /\ cursor' = SubSeq(cursor, n + 1, Len(cursor))
    /\ UNCHANGED <<program, run, pc, gis, raised, fnriStores, master_fc, IPCA_custom,
                   snapshots, change_log, moveLocals, failed_ids, exported, prev, at_start>>

\* overwrite_feature_layer returns; __main__ goes on to the custom layer, then to
\* copy_master_dataset(master_fc, main_gdb, 'IPCA_custom', custom_clause)
ipca_upload_done ==
    /\ program = IPCA /\ pc \in {"upload_main", "upload_cust"} /\ cursor = <<>>
    /\ IF pc = "upload_main"
       THEN pc' = "overwrite_cust" /\ UNCHANGED IPCA_custom
       ELSE pc' = "export_change_log" /\ IPCA_custom' = copy_master_dataset(master_fc)
    /\ UNCHANGED <<program, run, gis, raised, fnriStores, master_fc, agol_main, agol_cust,
                   snapshots, change_log, moveLocals, pubLocals, exported, faults, prev, at_start>>

header_mapping(p) == IF p \in FNRI THEN fnri_header_mapping(p) ELSE ipca_header_mapping

\* __main__ (fnri_dataSync, ipca): export_change_log as the last statement of the try block
export_change_log ==
    /\ pc = "export_change_log"
    /\ exported' = Report(change_log, header_mapping(program))
    /\ pc' = "finally"
    /\ UNCHANGED <<program, run, gis, raised, fnriStores, ipcaStores, snapshots,
                   change_log, moveLocals, pubLocals, faults, prev, at_start>>

\* overwrite_bcgw_staging: TruncateTable, then Append of the staging GDB
overwrite_bcgw_staging(staging) == staging

\* a finally clause that finds agol_sync_manager whatever the try block reached
always_bound(g) == TRUE

\* the name agol_sync_manager is assigned in the try block after ago.connect()
agol_sync_manager_bound(g) == g = "connected"

\* __main__: the finally clause.  fnri_dataSync and ipca only disconnect.
\* fnri_dataSync_gdbAgo also exports the change log and overwrites the BCGW copy;
\* agol_sync_manager is unbound when connect failed, and the NameError ends the clause
finally ==
    /\ pc = "finally"
    /\ gis' = "none"
    /\ IF program = "fnri_dataSync_gdbAgo" /\ agol_sync_manager_bound(gis)
       THEN /\ exported' = Report(change_log, header_mapping(program))
            /\ bcgw_staging_fc' = overwrite_bcgw_staging(staging_fc)
       ELSE UNCHANGED <<exported, bcgw_staging_fc>>
    /\ pc' = "done"
    /\ UNCHANGED <<program, run, raised, working_fc, staging_fc, agol_working,
                   agol_staging, ipcaStores, snapshots, change_log, moveLocals,
                   pubLocals, faults, prev, at_start>>

\* the script is started again: a new process, the stores as the last run left them
next_run ==
    /\ pc = "done" /\ run < MaxRuns
    /\ run' = run + 1
    /\ pc' = "connect"
    /\ raised' = FALSE
    /\ local_df' = <<>> /\ agol_df' = <<>>
    /\ change_log' = empty_log(DOMAIN change_log)
    /\ to_move' = <<>> /\ dup_ids' = {}
    /\ cursor' = <<>> /\ failed_ids' = <<>> /\ outcomes' = <<>> /\ calls' = <<>>
    /\ exported' = <<>>
    /\ prev' = [change_log |-> change_log, raised |-> raised,
                agol_staging |-> agol_staging, agol_main |-> agol_main,
                agol_cust |-> agol_cust]
    /\ at_start' = StartOfRun
    /\ UNCHANGED <<program, gis, fnriStores, ipcaStores, stopped, faults>>

-----------------------------------------------------------------------------

Init == (InitFnri \/ InitIpca) /\ InitCommon

Next ==
    \/ connect
    \/ append_new_areas_to_agol
    \/ delete_retired_working_records
    \/ modify_edited_agol_attributes
    \/ flag_missing_attributes
    \/ move_published_to_staging
    \/ move_insert
    \/ move_stops
    \/ move_delete_working
    \/ move_delete_ago
    \/ move_overlap
    \/ fnri_delete_removed_local_records_from_agol
    \/ fnri_stage_raises
    \/ fnri_overwrite_feature_layer
    \/ fnri_upload
    \/ fnri_upload_report
    \/ ipca_delete_removed_local_records_from_agol
    \/ delete_removed_agol_records
    \/ append_new_local_records_to_agol
    \/ detect_modified_local_records
    \/ append_edited_agol_records
    \/ append_new_agol_records
    \/ ipca_stage_raises
    \/ update_agol_fields
    \/ ipca_overwrite_feature_layer
    \/ ipca_upload
    \/ ipca_upload_done
    \/ export_change_log
    \/ finally
    \/ next_run

Spec == Init /\ [][Next]_vars

-----------------------------------------------------------------------------
(* Properties *)

LogOf(key) == IF key \in DOMAIN change_log THEN Range(change_log[key]) ELSE {}

\* the rows of to_move that the InsertCursor loop has written to the staging GDB
Moved == IF pc = "move_insert" THEN <<>> ELSE to_move

\* C1, as stated: in both FNRI variants a working record is moved to staging only if
\* every required attribute is non-null, both review-status fields are
\* 'Review Complete' and Publish_Status is 'Ready to Publish'.
C1_MovedOnlyIfEligible ==
    program \in FNRI =>
        \A k \in DOMAIN Moved :
            /\ \A f \in required : Moved[k][f] # NULL
            /\ Moved[k].Review_Status_FNLT = ReviewComplete
            /\ Moved[k].Review_Status_MIRR = ReviewComplete
            /\ Moved[k].Publish_Status = ReadyToPublish

\* C2, as stated: in any run no identity flagged by flag_missing_attributes is moved
\* to staging by move_published_to_staging in that same run.
C2_FlaggedNotMoved ==
    program \in FNRI =>
        LogOf("flag_missing_attributes") \cap LogOf("move_published_to_staging") = {}

\* C3: after move_published_to_staging has inserted, staging holds exactly one record
\* for each moved identity and it carries the promoted working version, also when
\* staging already held that identity; staging never holds two records of one identity.
C3_StagingOnePerMoved ==
    (program \in FNRI /\ pc # "move_insert") =>
        /\ Unique(staging_fc)
        /\ \A k \in DOMAIN to_move :
              /\ Count(staging_fc, to_move[k].uid) = 1
              /\ \A j \in DOMAIN staging_fc :
                    staging_fc[j].uid = to_move[k].uid
                        => \A f \in edit_fields(program) \ {"DATE_CREATED", "Publish_Status"} :
                              staging_fc[j][f] = to_move[k][f]

C3_Witness ==
    /\ program \in FNRI /\ pc = "move_overlap"
    /\ dup_ids # {}
    /\ \E k \in DOMAIN to_move : to_move[k].uid \in dup_ids

\* C4: once move_published_to_staging has inserted and deleted, every moved identity
\* is in staging with Publish_Status 'Published' and DATE_CREATED the run's date, every
\* other attribute and the geometry as in the working record (a null stays null), and
\* the identity is no longer in the working GDB.
C4_MovedRowPromoted ==
    (program \in FNRI /\ pc \notin {"move_insert", "move_delete_working"}) =>
        \A k \in DOMAIN to_move :
            /\ to_move[k].uid \notin Ident(working_fc)
            /\ \E j \in DOMAIN staging_fc :
                  /\ staging_fc[j].uid = to_move[k].uid
                  /\ staging_fc[j].Publish_Status = Published
                  /\ staging_fc[j].DATE_CREATED = Today(run)
                  /\ staging_fc[j].SHAPE = to_move[k].SHAPE
                  /\ \A f \in DOMAIN to_move[k] \ {"Publish_Status", "DATE_CREATED"} :
                        staging_fc[j][f] = to_move[k][f]

C4_Witness ==
    /\ program \in FNRI /\ pc = "move_overlap"
    /\ \E k \in DOMAIN to_move :
          /\ to_move[k].CONTACT_EMAIL = NULL
          /\ to_move[k].uid \in Ident(staging_fc)

\* the FNRI publish step has run to its end in this run
PublishDone ==
    program \in FNRI /\ ~raised /\ pc \in {"export_change_log", "finally", "done"}

\* C5: in fnri_dataSync_gdbAgo.overwrite_feature_layer every staging record is visited,
\* also after a failure; the publish-failed list holds exactly the identities that
\* failed both the first attempt and the simplified retry; every other record with a
\* geometry is in the remote layer; the stage does not raise.
C5_PublishFailedExact ==
    program = "fnri_dataSync_gdbAgo" =>
        /\ pc = "upload" => (~raised /\ Len(outcomes) + Len(cursor) = Len(staging_fc))
        /\ PublishDone =>
              /\ Len(outcomes) = Len(staging_fc)
              /\ change_log["flag_failed_to_ago_publish_staging"] =
                    Pick(IdList(staging_fc),
                         {k \in DOMAIN outcomes : outcomes[k] = "failed"})
              /\ \A k \in DOMAIN staging_fc :
                    (staging_fc[k].SHAPE # NULL /\ outcomes[k] # "failed")
                        => staging_fc[k].uid \in Ident(agol_staging)

C5_Witness ==
    /\ program = "fnri_dataSync_gdbAgo" /\ PublishDone
    /\ \E i, j \in DOMAIN outcomes :
          /\ i < j
          /\ outcomes[i] = "failed"
          /\ outcomes[j] \in {"added", "added_simplified"}

\* C6, as stated: after the FNRI publish step every staging record that is absent
\* from the remote staging layer is listed under flag_failed_to_ago_publish_staging.
C6_AbsentIsListed ==
    PublishDone =>
        \A k \in DOMAIN staging_fc :
            staging_fc[k].uid \notin Ident(agol_staging)
                => staging_fc[k].uid \in LogOf("flag_failed_to_ago_publish_staging")

\* the truncate of the layer has happened in this run
TruncatedStaging ==
    program \in FNRI /\ (pc = "upload" \/ PublishDone)

TruncatedMain ==
    /\ program = IPCA
    /\ \/ pc \in {"upload_main", "overwrite_cust", "upload_cust", "export_change_log"}
       \/ ~raised /\ pc \in {"finally", "done"}

TruncatedCust ==
    /\ program = IPCA
    /\ \/ pc \in {"upload_cust", "export_change_log"}
       \/ ~raised /\ pc \in {"finally", "done"}

\* C7: at every point after the truncate of overwrite_feature_layer the identities of
\* the remote layer are identities of the source, each at most once; a record that
\* was in the remote before the truncate and is not in the source is gone.
C7_PublishIsReplace ==
    /\ TruncatedStaging =>
          Ident(agol_staging) \subseteq Ident(staging_fc) /\ Unique(agol_staging)
    /\ TruncatedMain =>
          Ident(agol_main) \subseteq Ident(master_fc) /\ Unique(agol_main)
    /\ TruncatedCust =>
          /\ Ident(agol_cust) \subseteq Ident(copy_master_dataset(master_fc))
          /\ Unique(agol_cust)

C7_Witness ==
    /\ program \in FNRI /\ pc = "upload" /\ cursor = <<>>
    /\ agol_staging # <<>>
    /\ "failed" \in Range(outcomes)
    /\ StaleFeature.uid \notin Ident(staging_fc)

\* the pairs (AGOL row, local row) of one identity in the dataframes of the last re-read
Paired ==
    {<<agol_df[i], local_df[j]>> : i \in DOMAIN agol_df, j \in DOMAIN local_df}
        \cap {q \in Range(agol_df) \X Range(local_df) : q[1].uid = q[2].uid}

BothNull(x, y) == x = NULL /\ y = NULL
OneNull(x, y) == (x = NULL) # (y = NULL)

\* a field that is a reason to report: it is not null on both sides, and it is null on
\* one side or the two values differ
Reason(q, fields) ==
    \E f \in fields : ~BothNull(q[1][f], q[2][f]) /\ (OneNull(q[1][f], q[2][f]) \/ q[1][f] # q[2][f])

\* C8: in the modification diff a record is reported only for a watched field that is
\* not null on both sides, and a watched field that is null on one side only always
\* counts as a difference: in FNRI the record is reported as modified, in IPCA it is
\* claimed by append_edited_agol_records or by detect_modified_local_records.
C8_NullAwareDiff ==
    /\ (program \in FNRI /\ pc = "flag_missing_attributes") =>
          \A q \in Paired :
              /\ q[1].uid \in LogOf("modify_edited_agol_attributes")
                    => Reason(q, edit_fields(program))
              /\ (\E f \in edit_fields(program) : OneNull(q[1][f], q[2][f]))
                    => q[1].uid \in LogOf("modify_edited_agol_attributes")
    /\ (program = IPCA /\ pc = "append_new_agol_records") =>
          \A q \in Paired :
              /\ q[1].uid \in LogOf("append_edited_agol_records")
                                \cup LogOf("detect_modified_local_records")
                    => Reason(q, editCols)
              /\ (\E f \in editCols : OneNull(q[1][f], q[2][f]))
                    => q[1].uid \in LogOf("append_edited_agol_records")
                                       \cup LogOf("detect_modified_local_records")

C8_Witness ==
    /\ program \in FNRI /\ pc = "flag_missing_attributes"
    /\ \E q \in Paired :
          /\ OneNull(q[1].AGREEMENT_LINK, q[2].AGREEMENT_LINK)
          /\ BothNull(q[1].CONTACT_EMAIL, q[2].CONTACT_EMAIL)
          /\ q[1].uid \in LogOf("modify_edited_agol_attributes")

\* C9, as stated: in every run the identities appended to the remote working layer
\* and the identities deleted from it as removed are disjoint, and every identity
\* reported as modified is in both stores when the comparison is made.
C9_AddDeleteDisjoint ==
    program \in FNRI =>
        /\ LogOf("append_new_areas_to_agol")
              \cap LogOf("delete_removed_records_from_agol") = {}
        /\ pc = "flag_missing_attributes" =>
              LogOf("modify_edited_agol_attributes") \subseteq Ident(local_df) \cap Ident(agol_df)

\* C9, amended: an identity is both appended to the remote working layer and deleted
\* from it as removed in one run only if that run moved it to staging or retired it in
\* between; every identity reported as modified is in both stores when the
\* comparison is made.
C9_AddDeleteOnlyIfLeft ==
    program \in FNRI =>
        /\ LogOf("append_new_areas_to_agol") \cap LogOf("delete_removed_records_from_agol")
              \subseteq LogOf("move_published_to_staging") \cup LogOf("retired_records_deleted")
        /\ pc = "flag_missing_attributes" =>
              LogOf("modify_edited_agol_attributes") \subseteq Ident(local_df) \cap Ident(agol_df)

C9_Witness ==
    /\ program = "fnri_dataSync" /\ pc = "overwrite_feature_layer"
    /\ LogOf("append_new_areas_to_agol") \cap LogOf("delete_removed_records_from_agol") # {}
    /\ LogOf("modify_edited_agol_attributes") # {}

\* the change-log categories that record an append, a delete, a modification or a move
ChangeKeys ==
    {"append_new_areas_to_agol", "retired_records_deleted", "modify_edited_agol_attributes",
     "move_published_to_staging", "delete_removed_records_from_agol"}
        \cup IpcaLogKeys

\* a layer without the EditDate the server stamps on every feature it stores
SansEditDate(layer) ==
    [k \in DOMAIN layer |-> [f \in DOMAIN layer[k] \ {"EditDate"} |-> layer[k][f]]]

\* the second of two complete runs in which every remote call succeeded
SecondRunDone ==
    run = 2 /\ pc = "done" /\ faults = 0 /\ ~raised /\ ~prev.raised

\* C10, as stated: when the full pipeline runs twice in succession, nothing changes a
\* store in between and every remote call succeeds, the second run appends, deletes,
\* modifies and moves nothing, and the remote layer it publishes to holds the same
\* records after the second run as after the first.
C10_SecondRunIdle ==
    SecondRunDone =>
        /\ \A key \in ChangeKeys : LogOf(key) = {}
        /\ agol_staging = prev.agol_staging
        /\ SansEditDate(agol_main) = SansEditDate(prev.agol_main)
        /\ SansEditDate(agol_cust) = SansEditDate(prev.agol_cust)

\* C11: when a run stopped inside move_published_to_staging (after the staging
\* pre-delete, after some or all inserts, before the working delete), a later run that
\* completes ends with every identity of the unfinished move exactly once in staging
\* and absent from the working GDB.
C11_RerunCompletesMove ==
    (program \in FNRI /\ pc = "done" /\ ~raised) =>
        \A id \in stopped :
            /\ Count(staging_fc, id) = 1
            /\ id \notin Ident(working_fc)

C11_Witness ==
    /\ program \in FNRI /\ pc = "done" /\ ~raised /\ run = 2
    /\ stopped # {}
    /\ stopped \subseteq LogOf("move_published_to_staging")

\* the positions inside move_published_to_staging
MovePcs ==
    {"move_published_to_staging", "move_insert", "move_delete_working", "move_delete_ago",
     "move_overlap"}

\* C12: a record moved to staging in a run is in the overlap-flag list if and only if
\* its geometry intersects another record that is in staging after the run's inserts,
\* the record itself excluded and the other just-moved records included.
C12_OverlapFlagExact ==
    (program \in FNRI /\ pc \notin MovePcs) =>
        LogOf("flag_spatial_overlaps_staging") =
            {u \in Ident(to_move) :
                \E k \in DOMAIN to_move, j \in DOMAIN staging_fc :
                    /\ to_move[k].uid = u
                    /\ staging_fc[j].uid # u
                    /\ Intersects(to_move[k].SHAPE, staging_fc[j].SHAPE)}

C12_Witness ==
    /\ program \in FNRI /\ pc \notin MovePcs
    /\ Len(to_move) = 2
    /\ Intersects(to_move[1].SHAPE, to_move[2].SHAPE)
    /\ Ident(to_move) \subseteq LogOf("flag_spatial_overlaps_staging")

\* C13: export_change_log runs on every run, whether or not a stage raised: when the
\* run has ended, the change log accumulated by then has been exported.
C13_ExportedEveryRun ==
    pc = "done" => exported = Report(change_log, header_mapping(program))

\* C14: once a stage of the run has raised, no later step of that run changes a store
\* (working GDB, staging GDB, an AGOL layer, the master dataset, the BCGW copy).
C14_NoMutationAfterRaise ==
    [][raised => UNCHANGED <<fnriStores, ipcaStores>>]_vars

\* C15: when AGOConnector.connect raises, neither that step nor the rest of the run
\* changes the working GDB, the staging GDB, an AGOL layer, the master dataset or the
\* BCGW staging copy.
C15_ConnectFailureMutatesNothing ==
    [][((pc = "connect" /\ pc' = "finally") \/ (pc = "finally" /\ gis = "none"))
          => UNCHANGED <<fnriStores, ipcaStores>>]_vars

C15_Witness ==
    /\ program = "fnri_dataSync_gdbAgo"
    /\ pc = "done" /\ raised /\ exported = <<>>
    /\ staging_fc # bcgw_staging_fc

\* C16: an identity whose delete_features call failed is not reported as deleted or
\* retired: at the end of a run that did not raise, no identity listed under
\* retired_records_deleted or delete_removed_records_from_agol is still in the working
\* AGOL layer.
C16_ReportedDeletesHappened ==
    (program \in FNRI /\ pc = "done" /\ ~raised) =>
        (LogOf("retired_records_deleted") \cup LogOf("delete_removed_records_from_agol"))
            \cap Ident(agol_working) = {}

\* C17: an identity is logged as added only if its own insertion succeeded: right after
\* the append stage every identity it logged is in the remote layer.
C17_LoggedAddsSucceeded ==
    /\ (program \in FNRI /\ pc = "delete_retired_working_records") =>
          LogOf("append_new_areas_to_agol") \subseteq Ident(agol_working)
    /\ (program = IPCA /\ pc = "detect_modified_local_records") =>
          LogOf("append_new_local_records_to_agol") \subseteq Ident(agol_main)

\* C18: in the IPCA publish step the records that failed are collected by identity: when
\* the main layer has been rewritten, every master row with a geometry that is not in
\* the layer is in the collection of failed identities.
C18_FailedCollectedById ==
    (program = IPCA /\ pc = "overwrite_cust") =>
        \A k \in DOMAIN master_fc :
            (master_fc[k].SHAPE # NULL /\ master_fc[k].uid \notin Ident(agol_main))
                => master_fc[k].uid \in Range(failed_ids)

\* AGOL's modification timestamp: LAST_MODIFIED_DATE, else EditDate
AgolStamp(a) == IF a.LAST_MODIFIED_DATE = NULL THEN a.EditDate ELSE a.LAST_MODIFIED_DATE

\* the master rows of identity id carry AGOL row a's watched values and timestamp
Overwritten(id, a) ==
    \A k \in DOMAIN master_fc :
        master_fc[k].uid = id =>
            /\ \A col \in editCols \ {"LAST_MODIFIED_DATE"} : master_fc[k][col] = a[col]
            /\ master_fc[k].LAST_MODIFIED_DATE = AgolStamp(a)

\* the master rows of identity id are as they were read before the stage
Kept(id, l) == \A k \in DOMAIN master_fc : master_fc[k].uid = id => master_fc[k] = l

\* C19: after append_edited_agol_records, for an identity in both stores with a
\* differing watched field: when both timestamps are non-null and different, the master
\* record carries AGOL's values if and only if AGOL's timestamp (LAST_MODIFIED_DATE,
\* else EditDate) is the later one, and is unchanged otherwise; when the master's
\* timestamp is null, the master record carries AGOL's values.
C19_LaterStampWins ==
    (program = IPCA /\ pc = "append_new_agol_records") =>
        \A q \in Paired :
            Reason(q, editCols) =>
                /\ (/\ AgolStamp(q[1]) # NULL /\ q[2].LAST_MODIFIED_DATE # NULL
                    /\ AgolStamp(q[1]) # q[2].LAST_MODIFIED_DATE)
                      => IF TimeOrd(AgolStamp(q[1])) > TimeOrd(q[2].LAST_MODIFIED_DATE)
                         THEN Overwritten(q[1].uid, q[1]) /\ ~Kept(q[1].uid, q[2])
                         ELSE Kept(q[1].uid, q[2]) /\ ~Overwritten(q[1].uid, q[1])
                /\ q[2].LAST_MODIFIED_DATE = NULL => Overwritten(q[1].uid, q[1])

C19_Witness ==
    /\ program = IPCA /\ pc = "append_new_agol_records"
    /\ \E q \in Paired :
          /\ Reason(q, editCols)
          /\ q[2].LAST_MODIFIED_DATE # NULL
          /\ TimeOrd(AgolStamp(q[1])) > TimeOrd(q[2].LAST_MODIFIED_DATE)
          /\ Overwritten(q[1].uid, q[1]) /\ ~Kept(q[1].uid, q[2])

\* C20: after append_edited_agol_records, for an identity in both stores with a
\* differing watched field whose LAST_MODIFIED_DATE is equal on both sides, or null on
\* both sides, the master record is as it was before the stage.
C20_TieKeepsMaster ==
    (program = IPCA /\ pc = "append_new_agol_records") =>
        \A q \in Paired :
            (Reason(q, editCols) /\ q[1].LAST_MODIFIED_DATE = q[2].LAST_MODIFIED_DATE)
                => Kept(q[1].uid, q[2])

\* C21: every record that the main AGOL layer held with a geometry, and the master
\* dataset did not hold, at the start of an IPCA run is in the master dataset when the
\* run has ended without raising.
C21_AgolOnlyReachesMaster ==
    (program = IPCA /\ pc = "done" /\ ~raised) =>
        \A k \in DOMAIN at_start.agol_main :
            (/\ at_start.agol_main[k].geometry # NULL
             /\ at_start.agol_main[k].uid \notin Ident(at_start.master_fc))
                => at_start.agol_main[k].uid \in Ident(master_fc)

\* C22: at the end of a fnri_dataSync run that did not raise and in which every remote
\* call succeeded, the working AGOL layer and the working GDB hold the same identities.
C22_WorkingStoresAgree ==
    (program = "fnri_dataSync" /\ pc = "done" /\ ~raised /\ faults = 0) =>
        Ident(agol_working) = Ident(working_fc)

C22_Witness ==
    /\ program = "fnri_dataSync" /\ pc = "done" /\ ~raised /\ faults = 0
    /\ LogOf("move_published_to_staging") # {}
    /\ LogOf("move_published_to_staging") \subseteq LogOf("delete_removed_records_from_agol")
    /\ working_fc # <<>>

\* the identities that the snapshot of the working AGOL layer marks for retirement
Retiring == {r.uid : r \in {x \in Range(agol_df) : x.Publish_Status = ToBeRetired}}

\* C23: right after delete_retired_working_records, every identity marked 'To be
\* Retired from Working Data' in the working AGOL layer is absent from the working
\* AGOL layer and from the working GDB, and exactly those identities are logged.
C23_RetiredGoneFromBoth ==
    (program \in FNRI /\ pc = "modify_edited_agol_attributes") =>
        /\ Retiring \cap Ident(agol_working) = {}
        /\ Retiring \cap Ident(working_fc) = {}
        /\ LogOf("retired_records_deleted") = Retiring

\* the privacy levels of the custom dataset
Shareable == {"Unrestricted", "Internal only"}

\* row x, a feature or a feature-class row, carries the attributes of master row r
SameRecord(x, r) ==
    \A f \in (DOMAIN x \cap DOMAIN r) \ {"SHAPE", "geometry", "EditDate"} : x[f] = r[f]

\* C24: once the custom layer's truncate has run, every feature of the custom AGOL
\* layer is a master record with PRIVACY_LEVEL 'Unrestricted' or 'Internal only', also
\* while and after batches fail; and so is every row of IPCA_custom once it is copied.
C24_CustomOnlyShareable ==
    /\ (program = IPCA /\ pc \in {"upload_cust", "export_change_log"}
                        \cup (IF raised THEN {} ELSE {"finally", "done"})) =>
          \A k \in DOMAIN agol_cust :
              /\ agol_cust[k].PRIVACY_LEVEL \in Shareable
              /\ \E j \in DOMAIN master_fc : SameRecord(agol_cust[k], master_fc[j])
    /\ (program = IPCA /\ pc \in {"export_change_log"}
                        \cup (IF raised THEN {} ELSE {"finally", "done"})) =>
          \A k \in DOMAIN IPCA_custom :
              /\ IPCA_custom[k].PRIVACY_LEVEL \in Shareable
              /\ \E j \in DOMAIN master_fc : IPCA_custom[k] = master_fc[j]

C24_Witness ==
    /\ program = IPCA /\ pc = "done" /\ ~raised
    /\ \E j \in DOMAIN master_fc :
          master_fc[j].PRIVACY_LEVEL \notin Shareable /\ master_fc[j].SHAPE # NULL
    /\ agol_cust # <<>> /\ IPCA_custom # <<>>
    /\ faults > 0

\* C25: a record whose UPDATE_LOG in the main AGOL layer is 'Delete Shape' when the run
\* starts is absent from the AGOL layer and from the master dataset when the run has
\* ended without raising, whether or not the remote delete call succeeded.
C25_DeleteShapeGone ==
    (program = IPCA /\ pc = "done" /\ ~raised) =>
        \A k \in DOMAIN at_start.agol_main :
            at_start.agol_main[k].UPDATE_LOG = DeleteShape =>
                /\ at_start.agol_main[k].uid \notin Ident(master_fc)
                /\ at_start.agol_main[k].uid \notin Ident(agol_main)

\* the positions of the stages that compare the local store with the remote layer
ComparingStages ==
    {"append_new_areas_to_agol", "delete_retired_working_records",
     "modify_edited_agol_attributes", "delete_removed_local_records_from_agol",
     "delete_removed_agol_records", "append_new_local_records_to_agol",
     "detect_modified_local_records", "append_edited_agol_records",
     "append_new_agol_records"}

\* C26: a stage that compares the two stores works on snapshots of both as they are
\* when the stage starts: the snapshots it leaves are the stores it found.
C26_StagesResnapshot ==
    [][(pc \in ComparingStages /\ pc' # pc) =>
          IF program \in FNRI
          THEN local_df' = working_fc /\ agol_df' = agol_working
          ELSE local_df' = master_fc /\ agol_df' = agol_main]_vars

\* the insertion calls made for identity id during the current publish, in order
InsertionsOf(id) == SelectSeq(calls, LAMBDA c : c.op = "edit_features" /\ id \in c.ids)

\* C27: in both FNRI publish loops a record whose first insertion fails gets exactly
\* one retry, with simplified geometry; it is recorded as failed only if the retry
\* failed too; and no record gets more than two insertion attempts.
C27_OneSimplifiedRetry ==
    (program \in FNRI /\ pc = "upload") =>
        \A id \in 1..NumIds :
            LET cs == InsertionsOf(id)
            IN /\ Len(cs) <= 2
               /\ (Len(cs) >= 1 /\ ~cs[1].ok) => (Len(cs) = 2 /\ cs[2].simplified)
               /\ id \in Range(failed_ids) => (Len(cs) = 2 /\ ~cs[1].ok /\ ~cs[2].ok)

\* C28: during publish a pacing delay lies between any two consecutive remote
\* insertion calls, a failed first attempt and its retry included.
C28_DelayBetweenInsertions ==
    \A i \in 1..(Len(calls) - 1) :
        ~(calls[i].op = "edit_features" /\ calls[i + 1].op = "edit_features")

\* C29: a run whose working feature class has no Review_Status_MIRR field, and that
\* got as far as reading the stores, does not raise: it ends normally (and, every record
\* counting as review-incomplete, promotes nothing).
C29_AbsentReviewFieldTolerated ==
    (/\ program \in FNRI /\ pc = "done" /\ agol_df # <<>>
     /\ MissingColumns(working_fc, ReviewFields)) =>
        ~raised /\ LogOf("move_published_to_staging") = {}

\* the change log has been exported and not been extended since
Exported == pc = "done" /\ exported # <<>>

\* the sections of the report that carry category key
SectionsOf(key) == {i \in DOMAIN exported : exported[i].key = key}

StrictlyIncreasing(ids) == \A i, j \in DOMAIN ids : i < j => ids[i] < ids[j]

\* C30: the exported report has, for each category with at least one identity, exactly
\* one section, giving the number of distinct identities and their sorted list without
\* duplicates; it has no section for a category without identities; and when every
\* category is empty it is the single no-changes line.
C30_ReportFormat ==
    Exported =>
        /\ \A key \in DOMAIN change_log :
              IF change_log[key] = <<>>
              THEN SectionsOf(key) = {}
              ELSE /\ Cardinality(SectionsOf(key)) = 1
                   /\ \A i \in SectionsOf(key) :
                         /\ exported[i].count = Cardinality(Range(change_log[key]))
                         /\ Range(exported[i].ids) = Range(change_log[key])
                         /\ StrictlyIncreasing(exported[i].ids)
        /\ IF \A key \in DOMAIN change_log : change_log[key] = <<>>
           THEN Len(exported) = 1 /\ exported[1].key = "no changes detected"
           ELSE \A i \in DOMAIN exported : exported[i].key \in DOMAIN change_log

C30_Witness ==
    /\ Exported
    /\ \E key \in DOMAIN change_log :
          /\ Len(change_log[key]) >= 2
          /\ ~StrictlyIncreasing(change_log[key])
    /\ \E key \in DOMAIN change_log : change_log[key] = <<>>

\* the working-GDB rows of identity id
WorkingRows(id) == {r \in Range(working_fc) : r.uid = id}

\* C31: right after modify_edited_agol_attributes, for every identity in both the
\* working AGOL layer and the working GDB, every whitelisted edit field of the working
\* row equals the AGOL value (null for an AGOL null), and the identity is logged as
\* modified exactly when a whitelisted field differed.
C31_EditFieldsFollowAgol ==
    (program \in FNRI /\ pc = "flag_missing_attributes") =>
        \A q \in Paired :
            /\ WorkingRows(q[1].uid) # {}
            /\ \A r \in WorkingRows(q[1].uid) :
                  \A f \in edit_fields(program) : r[f] = q[1][f]
            /\ q[1].uid \in LogOf("modify_edited_agol_attributes")
                  <=> Reason(q, edit_fields(program))

C31_Witness ==
    /\ program \in FNRI /\ pc = "flag_missing_attributes"
    /\ \E q \in Paired :
          /\ q[1].AGREEMENT_LINK = NULL /\ q[2].AGREEMENT_LINK # NULL
          /\ \A r \in WorkingRows(q[1].uid) : r.AGREEMENT_LINK = NULL
          /\ q[1].uid \in LogOf("modify_edited_agol_attributes")
    /\ \E q \in Paired : q[1].uid \notin LogOf("modify_edited_agol_attributes")

\* C32: a record moved to staging in a run is in the staging AGOL layer when that run
\* has ended without raising, unless its identity is listed as failed to publish.
C32_MovedIsPublished ==
    (program \in FNRI /\ pc = "done" /\ ~raised) =>
        \A id \in LogOf("move_published_to_staging") :
            \/ id \in Ident(agol_staging)
            \/ id \in LogOf("flag_failed_to_ago_publish_staging")

\* C33: modify_edited_agol_attributes changes only the whitelisted edit fields of working
\* rows whose identity is in both stores: the working GDB keeps its rows, their
\* identities, their other attributes and their geometry, and the AGOL layers and the
\* staging GDB are not written.
C33_ModifyFrame ==
    [][(program \in FNRI /\ pc = "modify_edited_agol_attributes"
                         /\ pc' = "flag_missing_attributes") =>
          /\ DOMAIN working_fc' = DOMAIN working_fc
          /\ \A k \in DOMAIN working_fc :
                /\ DOMAIN working_fc'[k] = DOMAIN working_fc[k]
                /\ \A f \in DOMAIN working_fc[k] \ edit_fields(program) :
                      working_fc'[k][f] = working_fc[k][f]
                /\ working_fc'[k] # working_fc[k] =>
                      working_fc[k].uid \in Ident(agol_working)
          /\ agol_working' = agol_working
          /\ agol_staging' = agol_staging
          /\ staging_fc' = staging_fc
          /\ bcgw_staging_fc' = bcgw_staging_fc]_vars

\* modify_edited_agol_attributes has rewritten the link of a row whose parcel name
\* differs from the AGOL one, next to a row it has left alone
C33_Witness ==
    /\ program = "fnri_dataSync" /\ pc = "flag_missing_attributes"
    /\ Len(working_fc) = 2
    /\ \E q \in Paired :
          /\ q[1].Parcel_Name = "renamed" /\ q[2].Parcel_Name = "parcel"
          /\ q[2].AGREEMENT_LINK # "newlink"
          /\ \A r \in WorkingRows(q[1].uid) :
                r.AGREEMENT_LINK = "newlink" /\ r.Parcel_Name = "parcel"
    /\ \E r \in Range(working_fc) : r.uid \notin LogOf("modify_edited_agol_attributes")

\* the main AGOL layer holds, identity by identity, as many features as the master
\* dataset has rows with a geometry, each with the attributes and the geometry of one
\* of these rows
MainIsMaster ==
    /\ \A id \in Ident(master_fc) \cup Ident(agol_main) :
          Count(agol_main, id) = Count(SelectSeq(master_fc, LAMBDA r : r.SHAPE # NULL), id)
    /\ \A j \in DOMAIN agol_main :
          \E k \in DOMAIN master_fc :
              /\ master_fc[k].SHAPE # NULL
              /\ agol_main[j].geometry = master_fc[k].SHAPE
              /\ \A f \in DOMAIN master_fc[k] \ {"SHAPE"} : agol_main[j][f] = master_fc[k][f]

\* the edit_features loop of the main layer has ended and every batch was added
MainUploaded ==
    /\ program = IPCA /\ pc = "upload_main" /\ cursor = <<>>
    /\ "failed" \notin Range(outcomes)

\* the rest of an IPCA run once the main layer is uploaded
AfterMainUpload ==
    /\ program = IPCA
    /\ \/ pc = "upload_main" /\ cursor = <<>>
       \/ pc \in {"overwrite_cust", "upload_cust", "export_change_log", "finally", "done"}

\* C34: when the upload of the main AGOL layer has ended with every batch added, the
\* layer holds exactly the master records that have a geometry, with the master's
\* attribute values, and neither store changes in the rest of the run, so this is
\* what both hold at its end.
C34_MainLayerIsMaster ==
    /\ [](MainUploaded => MainIsMaster)
    /\ [][(AfterMainUpload /\ run' = run) =>
              (agol_main' = agol_main /\ master_fc' = master_fc)]_vars

\* a complete run with no failed call: an AGOL edit was written to master, a master row
\* has no geometry, and the main layer shows the master's values
C34_Witness ==
    /\ program = IPCA /\ pc = "done" /\ ~raised /\ faults = 0 /\ run = 1
    /\ LogOf("append_edited_agol_records") # {}
    /\ \E r \in Range(master_fc) : r.SHAPE = NULL
    /\ agol_main # <<>>
    /\ MainIsMaster

\* every identity selected for the move is in the working GDB or in the staging GDB
SelectedKept(working, staging) ==
    \A id \in Ident(to_move) : id \in Ident(working) \cup Ident(staging)

\* C35: at every point inside move_published_to_staging after the selection, and when
\* the function stops between its steps, each identity selected for the move is in the
\* working GDB or in the staging GDB.
C35_SelectedNeverLost ==
    /\ []((program \in FNRI /\ pc \in MovePcs \ {"move_published_to_staging"})
             => SelectedKept(working_fc, staging_fc))
    /\ [][(pc \in MovePcs /\ pc' = "finally") => SelectedKept(working_fc', staging_fc')]_vars

\* the staging copy of a selected identity was deleted and written again, and the
\* working copy is gone
C35_Witness ==
    /\ program \in FNRI /\ pc = "move_overlap"
    /\ Len(to_move) = 2 /\ dup_ids # {}
    /\ Ident(to_move) \cap Ident(working_fc) = {}
    /\ Ident(to_move) \subseteq Ident(staging_fc)

\* the FNRI stages that retire or delete records of the working tier
WorkingTierDeletes ==
    {"delete_retired_working_records", "delete_removed_local_records_from_agol"}

\* C36: in an FNRI run that has not raised, every identity the staging GDB held when the
\* run started is in the staging GDB at every point outside the move's pre-delete and
\* re-insert, the end of the run included; and the stages that retire or delete
\* working records leave the staging GDB and the published layer as they are.
C36_StagingKeepsIdentities ==
    /\ []((program \in FNRI /\ ~raised /\ pc # "move_insert")
             => Ident(at_start.staging_fc) \subseteq Ident(staging_fc))
    /\ [][(program \in FNRI /\ pc \in WorkingTierDeletes)
             => (staging_fc' = staging_fc /\ agol_staging' = agol_staging)]_vars

\* the end of a complete run: one identity staged at its start was retired from the
\* working tier, another was deleted from staging and inserted again by the move, and
\* both are in the staging GDB
C36_Witness ==
    /\ program \in FNRI /\ pc = "done" /\ ~raised
    /\ \E id \in Ident(at_start.staging_fc) :
          /\ id \in LogOf("retired_records_deleted")
          /\ id \notin Ident(working_fc)
          /\ id \in Ident(staging_fc)
    /\ \E k \in DOMAIN staging_fc :
          /\ staging_fc[k].uid \in Ident(at_start.staging_fc)
          /\ staging_fc[k].uid \in LogOf("move_published_to_staging")
          /\ staging_fc[k].DATE_CREATED = Today(run)
          /\ Count(staging_fc, staging_fc[k].uid) = 1

\* the comparison stages whose list holds identity id
Claimed(id) ==
    {key \in {"append_edited_agol_records", "detect_modified_local_records"} :
        id \in LogOf(key)}

\* C37: after the two comparison stages of an IPCA run, every identity in both stores
\* with a differing watched field is in exactly one of the two lists: selected by
\* append_edited_agol_records or logged by detect_modified_local_records.
C37_ExactlyOneDirection ==
    (program = IPCA /\ pc = "append_new_agol_records") =>
        \A q \in Paired :
            Reason(q, editCols) => Cardinality(Claimed(q[1].uid)) = 1

\* C38: at the end of a fnri_dataSync_gdbAgo run that did not raise and in which every
\* remote call succeeded, every identity in the working AGOL layer is in the working GDB.
C38_NoRemoteLeftover ==
    (program = "fnri_dataSync_gdbAgo" /\ pc = "done" /\ ~raised /\ faults = 0) =>
        Ident(agol_working) \subseteq Ident(working_fc)
====
